---- MODULE Spec2Model ----
(***************************************************************************)
(* yaria: the retry/fallback policy of YTDLPDownloader.Download            *)
(* (downloader/downloader.go) and the interactive session of tui.Model     *)
(* (tui/tui.go) with its progress channel, as state machines.              *)
(*                                                                         *)
(*   SpecDownload  one call of Download against a subprocess whose exit    *)
(*                 code is chosen freely at every run                      *)
(*   Spec          one interactive session: main's two tea programs        *)
(*                 (selection, then download) over one Model               *)
(*   FairSpec      Spec with the scheduling fairness of the Go runtime     *)
(***************************************************************************)
EXTENDS Integers, Sequences, FiniteSets, TLC

\* ------------------------------------------------------------- bounds
\* cfg.MaxRetries ranges over 0..MaxN in SpecDownload
MaxN == 3
\* characters typed into the URL field
MaxUrlLen == 1
\* events each output stream of the subprocess yields
MaxEvents == 2
\* slots of progressChan explored (the program's channel has 100, tui.go:874)
ChanCap == 1
\* animation ticks per cycle of rainbowOffset (360/5 = 72 in the program)
AnimPeriod == 2
\* waitForProgress commands outstanding at once
MaxRecv == 2
\* parseOutput: the longest line, in items
MaxTokens == 3
\* GetFormats: the longest tool output, in lines
MaxLines == 3
\* splitCRLF: the longest stream, in bytes
MaxStream == 3

\* config.New: MaxRetries: 3
DefaultMaxRetries == 3

VARIABLES
    cfg,        \* config.Config, shared by the downloader and the TUI
    attempt,    \* Download: the loop variable
    dlpc,       \* Download: position in the loop body
    runs,       \* Download: the subprocess runs and backoff waits so far
    result,     \* Download: "none" while running, then "success"/"failure"
    prog,       \* main: "run1" (selection program), "main", "run2" (download
                \* program), "exit"
    m,          \* tui.Model: the session fields
    pending,    \* commands returned by Update that have not produced their message
    animOn,     \* a rainbowAnimMsg command or tick is outstanding
    inTransit,  \* messages a waitForProgress received, not yet given to Update
    progressChan, \* the package-level channel
    dl,         \* the runDownload goroutine and its subprocess
    emitted,    \* per output stream: events its parseOutput reader has sent
    drops,      \* history: events sendProgress discarded
    lastApplied, \* history: per source, seq of the event updateDownloading applied last
    line,       \* parseOutput: the line scanner.Text() returned
    event,      \* parseOutput: what the loop body made of that line
    listing,    \* GetFormats: the output of yt-dlp --list-formats
    catalog,    \* GetFormats: what it returned
    scanner,    \* parseOutput: the bufio.Scanner that splits with splitCRLF
    destinationExists \* main: the file of the single video is in the original directory

engineVars == <<attempt, dlpc, runs, result>>
tuiVars == <<prog, m, pending, animOn, inTransit, progressChan, dl, emitted,
             drops, lastApplied>>
parserVars == <<line, event, listing, catalog, scanner>>
vars == <<cfg, engineVars, tuiVars, parserVars, destinationExists>>

\* ------------------------------------------------------------- config
\* config.Config: the fields the retry policy and the session read or write
Config(n, audio, res, cookie, aria) ==
    [MaxRetries |-> n, IsAudioOnly |-> audio, Resolution |-> res,
     CookieBrowser |-> cookie, UseAria2c |-> aria]

\* config.New
NewConfig == Config(DefaultMaxRetries, FALSE, "", "", TRUE)

\* ------------------------------------------------------ Download (engine)
PrimaryArgs_degrading(c) ==
    [cookies |-> c.CookieBrowser,
     audio   |-> c.IsAudioOnly,
     format  |-> IF c.IsAudioOnly THEN ""
                 ELSE IF c.Resolution # "" /\ attempt = 1
                   THEN c.Resolution \o "+bestaudio/best"
                 ELSE "bestvideo+bestaudio/best",
     aria2c  |-> c.UseAria2c]
\* the argument set of a primary attempt, downloader.go 990-1018
PrimaryArgs(c) ==
    [cookies |-> c.CookieBrowser,
     audio   |-> c.IsAudioOnly,
     format  |-> IF c.IsAudioOnly THEN ""
                 ELSE IF c.Resolution # "" THEN c.Resolution \o "+bestaudio/best"
                 ELSE "bestvideo+bestaudio/best",
     aria2c  |-> c.UseAria2c]

FallbackArgs_plain(c) ==
    [cookies |-> c.CookieBrowser,
     audio   |-> c.IsAudioOnly,
     format  |-> IF c.IsAudioOnly THEN ""
                 ELSE "bestvideo[height<=1080]+bestaudio/best",
     aria2c  |-> FALSE]
\* the fallback argument set, downloader.go 1030-1055
FallbackArgs(c) ==
    [cookies |-> c.CookieBrowser,
     audio   |-> c.IsAudioOnly,
     format  |-> IF c.IsAudioOnly THEN ""
                 ELSE "bestvideo[height<=1080]+bestaudio/best",
     aria2c  |-> c.UseAria2c]

RunEntry(a, fb, args, exit) ==
    [kind |-> "run", attempt |-> a, fallback |-> fb, args |-> args, exit |-> exit]

WaitEntry(a) ==
    [kind |-> "wait", attempt |-> a, fallback |-> FALSE,
     args |-> PrimaryArgs(NewConfig), exit |-> 0]

\* for attempt := 1; attempt <= d.cfg.MaxRetries; attempt++
LoopCondition_off == attempt < cfg.MaxRetries
LoopCondition == attempt <= cfg.MaxRetries

\* if attempt == d.cfg.MaxRetries { ... fallback ... }
IsLastAttempt_any == attempt >= 1
IsLastAttempt == attempt = cfg.MaxRetries

\* if attempt < d.cfg.MaxRetries { d.cfg.WaitBeforeRetry(attempt) }
ShouldWait_always == attempt <= cfg.MaxRetries
ShouldWait == attempt < cfg.MaxRetries

\* cmd.Run() of a primary attempt: err == nil returns (true, nil)
DlAttempt ==
    /\ dlpc = "loop"
    /\ LoopCondition
    /\ \E exit \in {0, 1} :
         /\ runs' = Append(runs, RunEntry(attempt, FALSE, PrimaryArgs(cfg), exit))
         /\ IF exit = 0
              THEN dlpc' = "done" /\ result' = "success"
              ELSE dlpc' = "failed" /\ result' = result
    /\ UNCHANGED <<cfg, attempt, tuiVars, parserVars, destinationExists>>

\* the attempt failed on the last iteration: one run with the fallback set
DlFallback ==
    /\ dlpc = "failed"
    /\ IsLastAttempt
    /\ \E exit \in {0, 1} :
         /\ runs' = Append(runs, RunEntry(attempt, TRUE, FallbackArgs(cfg), exit))
         /\ IF exit = 0
              THEN dlpc' = "done" /\ result' = "success"
              ELSE dlpc' = "retry" /\ result' = result
    /\ UNCHANGED <<cfg, attempt, tuiVars, parserVars, destinationExists>>

\* the attempt failed before the last iteration: no fallback run
DlNoFallback ==
    /\ dlpc = "failed"
    /\ ~IsLastAttempt
    /\ dlpc' = "retry"
    /\ UNCHANGED <<cfg, attempt, runs, result, tuiVars, parserVars, destinationExists>>

\* WaitBeforeRetry when attempts remain, then attempt++
DlRetry ==
    /\ dlpc = "retry"
    /\ runs' = IF ShouldWait THEN Append(runs, WaitEntry(attempt)) ELSE runs
    /\ attempt' = attempt + 1
    /\ dlpc' = "loop"
    /\ UNCHANGED <<cfg, result, tuiVars, parserVars, destinationExists>>

\* the loop ended: errors.New("all download attempts failed, including fallback")
DlExhausted ==
    /\ dlpc = "loop"
    /\ ~LoopCondition
    /\ dlpc' = "done"
    /\ result' = "failure"
    /\ UNCHANGED <<cfg, attempt, runs, tuiVars, parserVars, destinationExists>>


\* =================================================== the session (tui.go)
\* type state
urlState == "urlState"
metadataLoadingState == "metadataLoadingState"
browserSelectionState == "browserSelectionState"
formatState == "formatState"
resolutionState == "resolutionState"
confirmationState == "confirmationState"
formatsLoadingState == "formatsLoadingState"
downloadingState == "downloadingState"
downloadCompleteState == "downloadCompleteState"

States ==
    {urlState, metadataLoadingState, browserSelectionState, formatState,
     resolutionState, confirmationState, formatsLoadingState,
     downloadingState, downloadCompleteState}

\* tea.KeyMsg, named by msg.String(); one-character names are KeyRunes
RuneKeys == {"k", "j", "q", "y", "n", " "}
Keys == {"enter", "ctrl+c", "esc", "up", "down", "backspace"} \cup RuneKeys
\* the runes typed into the URL field
UrlRunes == {"k", " "}

KeyMsg(k) == [type |-> "key", key |-> k]
WindowSizeMsg == [type |-> "windowSize"]
rainbowAnimMsg == [type |-> "rainbowAnim"]
tickMsg == [type |-> "tick"]
metadataFetchedMsg(info, title, err) ==
    [type |-> "metadataFetched", playlistInfo |-> info, title |-> title, err |-> err]
browsersDetectedMsg(bs) == [type |-> "browsersDetected", browsers |-> bs]
formatsFetchedMsg(fs, err) == [type |-> "formatsFetched", formats |-> fs, err |-> err]
downloadProgressMsg(src, seq, pct) ==
    [type |-> "downloadProgress", src |-> src, seq |-> seq, percent |-> pct,
     speed |-> "", eta |-> ""]
downloadCompleteMsg(ok, err) == [type |-> "downloadComplete", success |-> ok, err |-> err]

\* the commands Update returns
Quit == "tea.Quit"
AsyncCmds == {"fetchMetadata", "detectBrowsers", "fetchFormats", "tick", "waitForProgress"}
NoPending == [c \in AsyncCmds |-> 0]

\* the errors GetMetadata reports: none, an authentication / age restriction
\* ("Sign in to confirm", "Age-restricted"), any other
MetadataErrors == {"", "Sign in to confirm your age", "Video unavailable"}
IsAgeRestriction_any(err) == err # ""
IsAgeRestriction(err) == err = "Sign in to confirm your age"

\* downloader.Format
Format(id, h, ext, proto) ==
    [ID |-> id, Height |-> h, Ext |-> ext, IsAudio |-> FALSE, Protocol |-> proto,
     FileSize |-> ""]
F1080 == Format("137", 1080, "mp4", "https")
F720 == Format("136", 720, "mp4", "https")
\* what detectBrowsers finds
BrowserLists == {<<>>, <<"firefox", "chrome">>}

\* New
FormatChoices == <<"Video (with audio)", "Audio only">>
NewModel ==
    [state |-> urlState, url |-> <<>>, URL |-> <<>>, urlInput |-> <<>>,
     Title |-> "", PlaylistInfo |-> "", videoFormats |-> <<>>,
     cursor |-> 0, choices |-> FormatChoices, Confirmed |-> FALSE,
     rainbowOffset |-> 0, errorMsg |-> "", availableBrowsers |-> <<>>,
     needsBrowser |-> FALSE, downloadProgress |-> <<>>, downloadPercent |-> 0,
     downloadSpeed |-> "", downloadETA |-> "",
     downloadComplete |-> FALSE, downloadError |-> "", TempDir |-> "",
     Args |-> <<>>]

\* strings.TrimSpace, on the sequence of typed characters
RECURSIVE TrimLeft(_)
TrimLeft(s) == IF s # <<>> /\ Head(s) = " " THEN TrimLeft(Tail(s)) ELSE s
RECURSIVE TrimRight(_)
TrimRight(s) ==
    IF s # <<>> /\ s[Len(s)] = " " THEN TrimRight(SubSeq(s, 1, Len(s) - 1)) ELSE s
TrimSpace_none(s) == s
TrimSpace(s) == TrimRight(TrimLeft(s))

\* what a handler returns: the model, the config it wrote through m.cfg, the
\* commands, and the handler that produced it
Ret(mm, c, cmds, via) == [m |-> mm, cfg |-> c, cmds |-> cmds, via |-> via]

\* if m.cursor > 0 { m.cursor-- }
CursorUp_wrap(mm) == [mm EXCEPT !.cursor = @ - 1]
CursorUp(mm) == IF mm.cursor > 0 THEN [mm EXCEPT !.cursor = @ - 1] ELSE mm

\* if m.cursor < len(m.choices)-1 { m.cursor++ }
CursorDown_off(mm) ==
    IF mm.cursor < Len(mm.choices) THEN [mm EXCEPT !.cursor = @ + 1] ELSE mm
CursorDown(mm) ==
    IF mm.cursor < Len(mm.choices) - 1 THEN [mm EXCEPT !.cursor = @ + 1] ELSE mm

\* m.url = m.URL; m.state = metadataLoadingState
AfterSubmit_stay(mm, u) == [mm EXCEPT !.URL = u, !.url = u]
AfterSubmit(mm, u) == [mm EXCEPT !.URL = u, !.url = u, !.state = metadataLoadingState]

updateURL(mm, c, msg) ==
    IF msg.type # "key" THEN Ret(mm, c, {}, "updateURL")
    ELSE CASE msg.key = "enter" ->
                LET u == TrimSpace(mm.urlInput) IN
                IF u = <<>>
                  THEN Ret([mm EXCEPT !.URL = u, !.errorMsg = "No URL provided"],
                           c, {Quit}, "updateURL")
                  ELSE Ret(AfterSubmit(mm, u), c, {"fetchMetadata", "tick"}, "updateURL")
           [] msg.key \in {"ctrl+c", "esc"} -> Ret(mm, c, {Quit}, "updateURL")
           [] msg.key \in RuneKeys ->
                Ret([mm EXCEPT !.urlInput = Append(@, msg.key)], c, {}, "updateURL")
           [] msg.key = "backspace" ->
                Ret(IF Len(mm.urlInput) > 0
                      THEN [mm EXCEPT !.urlInput = SubSeq(@, 1, Len(@) - 1)]
                      ELSE mm,
                    c, {}, "updateURL")
           [] OTHER -> Ret(mm, c, {}, "updateURL")

\* if !m.needsBrowser && m.cfg.CookieBrowser == ""
CanTryBrowser_never(mm, c) == FALSE
CanTryBrowser_always(mm, c) == TRUE
CanTryBrowser(mm, c) == ~mm.needsBrowser /\ c.CookieBrowser = ""

updateMetadataLoading(mm, c, msg) ==
    CASE msg.type = "metadataFetched" ->
           IF msg.err # ""
             THEN IF IsAgeRestriction(msg.err) /\ CanTryBrowser(mm, c)
                    THEN Ret([mm EXCEPT !.needsBrowser = TRUE], c, {"detectBrowsers"},
                             "updateMetadataLoading")
                    ELSE Ret([mm EXCEPT !.errorMsg = "Failed to fetch metadata: " \o msg.err],
                             c, {Quit}, "updateMetadataLoading")
             ELSE Ret([mm EXCEPT !.PlaylistInfo = msg.playlistInfo,
                                 !.Title = msg.title,
                                 !.state = formatState,
                                 !.cursor = 0],
                      c, {}, "updateMetadataLoading")
      [] msg.type = "browsersDetected" ->
           IF Len(msg.browsers) = 0
             THEN Ret([mm EXCEPT !.availableBrowsers = msg.browsers,
                                 !.errorMsg =
                                     "Age-restricted video. No supported browsers found"],
                      c, {Quit}, "updateMetadataLoading")
             ELSE Ret([mm EXCEPT !.availableBrowsers = msg.browsers,
                                 !.state = browserSelectionState,
                                 !.cursor = 0,
                                 !.choices = msg.browsers],
                      c, {}, "updateMetadataLoading")
      [] msg.type = "tick" -> Ret(mm, c, {"tick"}, "updateMetadataLoading")
      [] msg.type = "key" /\ msg.key = "ctrl+c" ->
           Ret(mm, c, {Quit}, "updateMetadataLoading")
      [] OTHER -> Ret(mm, c, {}, "updateMetadataLoading")

updateBrowserSelection(mm, c, msg) ==
    IF msg.type # "key" THEN Ret(mm, c, {}, "updateBrowserSelection")
    ELSE CASE msg.key = "ctrl+c" -> Ret(mm, c, {Quit}, "updateBrowserSelection")
           [] msg.key \in {"up", "k"} ->
                Ret(CursorUp(mm), c, {}, "updateBrowserSelection")
           [] msg.key \in {"down", "j"} ->
                Ret(CursorDown(mm), c, {}, "updateBrowserSelection")
           [] msg.key = "enter" ->
                Ret([mm EXCEPT !.needsBrowser = TRUE, !.state = metadataLoadingState],
                    [c EXCEPT !.CookieBrowser = mm.availableBrowsers[mm.cursor + 1]],
                    {"fetchMetadata", "tick"}, "updateBrowserSelection")
           [] OTHER -> Ret(mm, c, {}, "updateBrowserSelection")

updateFormat_alwaysQuery(mm, c, msg) ==
    IF msg.type # "key" THEN Ret(mm, c, {}, "updateFormat")
    ELSE CASE msg.key \in {"q", "ctrl+c"} -> Ret(mm, c, {Quit}, "updateFormat")
           [] msg.key \in {"up", "k"} -> Ret(CursorUp(mm), c, {}, "updateFormat")
           [] msg.key \in {"down", "j"} -> Ret(CursorDown(mm), c, {}, "updateFormat")
           [] msg.key = "enter" ->
                Ret([mm EXCEPT !.state = formatsLoadingState],
                    [c EXCEPT !.IsAudioOnly = (mm.cursor # 0)],
                    {"fetchFormats", "tick"}, "updateFormat")
           [] OTHER -> Ret(mm, c, {}, "updateFormat")
updateFormat(mm, c, msg) ==
    IF msg.type # "key" THEN Ret(mm, c, {}, "updateFormat")
    ELSE CASE msg.key \in {"q", "ctrl+c"} -> Ret(mm, c, {Quit}, "updateFormat")
           [] msg.key \in {"up", "k"} -> Ret(CursorUp(mm), c, {}, "updateFormat")
           [] msg.key \in {"down", "j"} -> Ret(CursorDown(mm), c, {}, "updateFormat")
           [] msg.key = "enter" ->
                IF mm.cursor = 0
                  THEN Ret([mm EXCEPT !.state = formatsLoadingState],
                           [c EXCEPT !.IsAudioOnly = FALSE],
                           {"fetchFormats", "tick"}, "updateFormat")
                  ELSE Ret([mm EXCEPT !.state = confirmationState, !.cursor = 0],
                           [c EXCEPT !.IsAudioOnly = TRUE], {}, "updateFormat")
           [] OTHER -> Ret(mm, c, {}, "updateFormat")

\* fmt.Sprintf("%dp (%s, %s)", f.Height, f.Ext, f.Protocol), with the file
\* size appended when the format has one
ChoiceLabel(f) ==
    LET base == ToString(f.Height) \o "p (" \o f.Ext \o ", " \o f.Protocol \o ")"
    IN IF f.FileSize # "" THEN base \o " - " \o f.FileSize ELSE base

RECURSIVE ChoiceLabels(_)
ChoiceLabels(fs) ==
    IF fs = <<>> THEN <<>> ELSE <<ChoiceLabel(Head(fs))>> \o ChoiceLabels(Tail(fs))

updateFormatsLoading(mm, c, msg) ==
    CASE msg.type = "formatsFetched" ->
           IF msg.err # ""
             THEN Ret([mm EXCEPT !.errorMsg = "Failed to fetch formats"], c, {Quit},
                      "updateFormatsLoading")
             ELSE LET vf == SelectSeq(msg.formats, LAMBDA f : ~f.IsAudio) IN
                  IF Len(vf) = 0
                    THEN Ret([mm EXCEPT !.videoFormats = vf,
                                        !.state = confirmationState,
                                        !.cursor = 0],
                             [c EXCEPT !.Resolution = ""], {}, "updateFormatsLoading")
                    ELSE Ret([mm EXCEPT !.videoFormats = vf,
                                        !.choices = <<"Default (best available)">>
                                                      \o ChoiceLabels(vf),
                                        !.state = resolutionState,
                                        !.cursor = 0],
                             c, {}, "updateFormatsLoading")
      [] msg.type = "tick" -> Ret(mm, c, {"tick"}, "updateFormatsLoading")
      [] msg.type = "key" /\ msg.key = "ctrl+c" ->
           Ret(mm, c, {Quit}, "updateFormatsLoading")
      [] OTHER -> Ret(mm, c, {}, "updateFormatsLoading")

\* m.videoFormats[m.cursor-1], the format shown on row m.cursor
PickedFormat_first(mm) == mm.videoFormats[1]
PickedFormat(mm) == mm.videoFormats[mm.cursor]

updateResolution(mm, c, msg) ==
    IF msg.type # "key" THEN Ret(mm, c, {}, "updateResolution")
    ELSE CASE msg.key \in {"q", "ctrl+c"} -> Ret(mm, c, {Quit}, "updateResolution")
           [] msg.key \in {"up", "k"} -> Ret(CursorUp(mm), c, {}, "updateResolution")
           [] msg.key \in {"down", "j"} -> Ret(CursorDown(mm), c, {}, "updateResolution")
           [] msg.key = "enter" ->
                Ret([mm EXCEPT !.state = confirmationState, !.cursor = 0],
                    [c EXCEPT !.Resolution =
                        IF mm.cursor = 0 THEN ""
                        ELSE IF mm.cursor - 1 < Len(mm.videoFormats)
                               THEN PickedFormat(mm).ID
                               ELSE ""],
                    {}, "updateResolution")
           [] OTHER -> Ret(mm, c, {}, "updateResolution")

\* startDownload: go m.runDownload(); return waitForProgress
startDownload_none == {"waitForProgress"}
startDownload == {"go runDownload", "waitForProgress"}

updateConfirmation(mm, c, msg) ==
    IF msg.type # "key" THEN Ret(mm, c, {}, "updateConfirmation")
    ELSE CASE msg.key \in {"q", "ctrl+c"} -> Ret(mm, c, {Quit}, "updateConfirmation")
           [] msg.key = "y" ->
                IF mm.TempDir = "" \/ Len(mm.Args) = 0
                  THEN Ret([mm EXCEPT !.Confirmed = TRUE, !.Args = <<mm.url>>],
                           c, {Quit}, "updateConfirmation")
                  ELSE Ret([mm EXCEPT !.Confirmed = TRUE, !.state = downloadingState],
                           c, startDownload, "updateConfirmation")
           [] msg.key = "n" -> Ret(mm, c, {Quit}, "updateConfirmation")
           [] OTHER -> Ret(mm, c, {}, "updateConfirmation")

\* the four assignments of case downloadProgressMsg
ApplyProgress_accumulate(mm, msg) ==
    [mm EXCEPT !.downloadProgress = <<msg.src, msg.seq>>,
               !.downloadPercent = msg.percent,
               !.downloadSpeed = IF msg.speed # "" THEN msg.speed ELSE @,
               !.downloadETA = IF msg.eta # "" THEN msg.eta ELSE @]
ApplyProgress(mm, msg) ==
    [mm EXCEPT !.downloadProgress = <<msg.src, msg.seq>>,
               !.downloadPercent = msg.percent,
               !.downloadSpeed = msg.speed,
               !.downloadETA = msg.eta]

updateDownloading(mm, c, msg) ==
    CASE msg.type = "downloadProgress" ->
           Ret(ApplyProgress(mm, msg), c, {"waitForProgress"}, "updateDownloading")
      [] msg.type = "downloadComplete" ->
           IF msg.success
             THEN Ret([mm EXCEPT !.downloadComplete = TRUE,
                                 !.state = downloadCompleteState],
                      c, {}, "updateDownloading")
             ELSE Ret([mm EXCEPT !.downloadError =
                                     IF msg.err # "" THEN msg.err ELSE "Download failed",
                                 !.state = downloadCompleteState],
                      c, {}, "updateDownloading")
      [] msg.type = "key" /\ msg.key = "ctrl+c" ->
           Ret(mm, c, {Quit}, "updateDownloading")
      [] OTHER -> Ret(mm, c, {"waitForProgress"}, "updateDownloading")

updateDownloadComplete_applies(mm, c, msg) ==
    IF msg.type = "key" /\ msg.key \in {"ctrl+c", "enter"}
      THEN Ret(mm, c, {Quit}, "updateDownloadComplete")
      ELSE IF msg.type = "downloadProgress"
        THEN Ret(ApplyProgress(mm, msg), c, {}, "updateDownloadComplete")
        ELSE Ret(mm, c, {}, "updateDownloadComplete")
updateDownloadComplete(mm, c, msg) ==
    IF msg.type = "key" /\ msg.key \in {"ctrl+c", "enter"}
      THEN Ret(mm, c, {Quit}, "updateDownloadComplete")
      ELSE Ret(mm, c, {}, "updateDownloadComplete")

\* m.rainbowOffset = (m.rainbowOffset + 5) % 360, the modulus scaled to
\* AnimPeriod steps
AnimStep == 5
NextOffset(o) == (o + AnimStep) % (AnimStep * AnimPeriod)

\* if m.rainbowOffset == 0 { return m, rainbowAnimMsg command }
AnimationNotStarted(mm) == mm.rainbowOffset = 0

Update(mm, c, msg) ==
    CASE msg.type = "windowSize" -> Ret(mm, c, {"rainbowAnim"}, "animation")
      [] msg.type = "rainbowAnim" ->
           Ret([mm EXCEPT !.rainbowOffset = NextOffset(@)], c, {"rainbowAnim"},
               "animation")
      [] OTHER ->
           IF AnimationNotStarted(mm) THEN Ret(mm, c, {"rainbowAnim"}, "notStarted")
           ELSE CASE mm.state = urlState -> updateURL(mm, c, msg)
                  [] mm.state = metadataLoadingState -> updateMetadataLoading(mm, c, msg)
                  [] mm.state = browserSelectionState -> updateBrowserSelection(mm, c, msg)
                  [] mm.state = formatState -> updateFormat(mm, c, msg)
                  [] mm.state = resolutionState -> updateResolution(mm, c, msg)
                  [] mm.state = confirmationState -> updateConfirmation(mm, c, msg)
                  [] mm.state = formatsLoadingState -> updateFormatsLoading(mm, c, msg)
                  [] mm.state = downloadingState -> updateDownloading(mm, c, msg)
                  [] mm.state = downloadCompleteState -> updateDownloadComplete(mm, c, msg)

\* the sequences of at most n elements of S
RECURSIVE SeqsUpTo(_, _)
SeqsUpTo(S, n) ==
    IF n = 0 THEN {<<>>}
    ELSE LET shorter == SeqsUpTo(S, n - 1) IN
         shorter \cup {Append(l, x) : l \in shorter, x \in S}

\* ------------------------------------------- the format listing (GetFormats)
\* the resolution field of a listing line ("1920x1080"): has, a field contains
\* "x"; ok, strconv.Atoi accepts what follows the "x"; v, its value
Res(has, ok, v) == [has |-> has, ok |-> ok, v |-> v]
\* one line of "yt-dlp --list-formats": marker is "video only", "audio only",
\* "both" or "" (neither); short, it has fewer than three fields; ext is the
\* EXT column and note the container named after the marker ("mp4_dash",
\* "webm_dash"), "" when the line names none
ListingLine(marker, short, id, res, ext, proto, note) ==
    [marker |-> marker, short |-> short, id |-> id, res |-> res, ext |-> ext,
     proto |-> proto, note |-> note]

\* the Format the loop body builds from a line: the last field that contains
\* "mp4", "webm", "m4a" or "mp3" is the extension
ParseFormat(ln) ==
    LET isAudio == ln.marker \in {"audio only", "both"}
        height == IF ~isAudio /\ ln.res.has /\ ln.res.ok THEN ln.res.v ELSE 0
        ext == IF ln.note # "" THEN ln.note ELSE ln.ext
    IN [Format(ln.id, height, ext, ln.proto) EXCEPT !.IsAudio = isAudio]

\* if (isAudio && ext != "") || (!isAudio && height > 0)
IsKept_any(f) == TRUE
IsKept(f) == (f.IsAudio /\ f.Ext # "") \/ (~f.IsAudio /\ f.Height > 0)

\* the formats slice after the loop over the lines
RECURSIVE ParsedFormats(_)
ParsedFormats(lns) ==
    IF lns = <<>> THEN <<>>
    ELSE LET ln == lns[Len(lns)]
             before == ParsedFormats(SubSeq(lns, 1, Len(lns) - 1))
         IN IF ln.marker # "" /\ ~ln.short /\ IsKept(ParseFormat(ln))
              THEN Append(before, ParseFormat(ln))
              ELSE before

\* Prioritize: mp4 > webm, http > m3u8
shouldReplace(f, existing) ==
    IF f.Ext = "mp4" /\ existing.Ext # "mp4" THEN TRUE
    ELSE IF f.Ext = existing.Ext
      THEN (f.Protocol = "http" \/ f.Protocol = "")
           /\ existing.Protocol # "http" /\ existing.Protocol # ""
    ELSE FALSE

\* uniqueFormats, the map[int]Format, after the loop over the formats
RECURSIVE uniqueFormats(_)
uniqueFormats(fs) ==
    IF fs = <<>> THEN <<>>
    ELSE LET f == fs[Len(fs)]
             u == uniqueFormats(SubSeq(fs, 1, Len(fs) - 1))
             heights == {u[i].Height : i \in 1..Len(u)}
         IN IF f.IsAudio THEN u
            ELSE IF f.Height \notin heights THEN Append(u, f)
            ELSE [i \in 1..Len(u) |->
                    IF u[i].Height = f.Height /\ shouldReplace(f, u[i]) THEN f ELSE u[i]]

\* Sort by height descending
sortedFormats_unsorted(u) == u
RECURSIVE sortedFormats(_)
sortedFormats(u) ==
    IF u = <<>> THEN <<>>
    ELSE LET top == CHOOSE i \in 1..Len(u) : \A j \in 1..Len(u) :
                        u[j].Height < u[i].Height \/ (u[j].Height = u[i].Height /\ i <= j)
         IN <<u[top]>> \o sortedFormats(SubSeq(u, 1, top - 1) \o SubSeq(u, top + 1, Len(u)))

\* what GetFormats returns for the output of the tool
GetFormats(out) ==
    IF out.failed
      THEN [done |-> TRUE, formats |-> <<>>, err |-> "yt-dlp failed"]
      ELSE [done |-> TRUE, formats |-> sortedFormats(uniqueFormats(ParsedFormats(out.lines))),
            err |-> ""]

\* the lines tool outputs are made of
ListingLines ==
    {ListingLine("video only", FALSE, "137", Res(TRUE, TRUE, 1080), "mp4", "https", ""),
     ListingLine("video only", FALSE, "248", Res(TRUE, TRUE, 1080), "webm", "https", ""),
     ListingLine("video only", FALSE, "299", Res(TRUE, TRUE, 1080), "mp4", "https", "mp4_dash"),
     ListingLine("video only", FALSE, "303", Res(TRUE, TRUE, 1080), "webm", "https", "webm_dash"),
     ListingLine("video only", FALSE, "232", Res(TRUE, TRUE, 720), "mp4", "m3u8", ""),
     ListingLine("video only", FALSE, "136", Res(TRUE, TRUE, 720), "mp4", "https", ""),
     ListingLine("video only", FALSE, "135", Res(TRUE, TRUE, 720), "mp4", "http", ""),
     ListingLine("video only", FALSE, "22", Res(TRUE, TRUE, 720), "mp4", "", ""),
     ListingLine("audio only", FALSE, "140", Res(FALSE, FALSE, 0), "m4a", "https", ""),
     ListingLine("both", FALSE, "18", Res(TRUE, TRUE, 360), "mp4", "https", ""),
     ListingLine("video only", FALSE, "sb0", Res(TRUE, TRUE, 0), "mp4", "https", ""),
     ListingLine("video only", FALSE, "sb1", Res(TRUE, FALSE, 0), "webm", "https", ""),
     ListingLine("video only", TRUE, "", Res(FALSE, FALSE, 0), "", "", ""),
     ListingLine("", FALSE, "ID", Res(FALSE, FALSE, 0), "", "", "")}
Listings ==
    [lines : SeqsUpTo(ListingLines, MaxLines), failed : {FALSE}]
        \cup {[lines |-> <<>>, failed |-> TRUE]}

\* the catalogs the selection program's fetchFormats gets from GetFormats
Catalogs ==
    {GetFormats([lines |-> ls, failed |-> FALSE]).formats :
        ls \in {<<>>,
                <<ListingLine("video only", FALSE, "136", Res(TRUE, TRUE, 720), "mp4", "https", ""),
                  ListingLine("video only", FALSE, "137", Res(TRUE, TRUE, 1080), "mp4", "https", "")>>}}

NotListed == [done |-> FALSE, formats |-> <<>>, err |-> ""]
ListingIdle == listing = [lines |-> <<>>, failed |-> FALSE] /\ catalog = NotListed

\* ------------------------------------------- the classifier (parseOutput)
\* A line is the sequence of its whitespace-separated items. An item carries
\* its text and what the regular expressions of parseOutput read in it.
\* A decimal text ([0-9.]+): its value in tenths when strconv.ParseFloat
\* accepts it
NumText(ok, v) == [ok |-> ok, v |-> v]
\* strconv.ParseFloat with the error dropped: 0 on a syntax error
ParseFloat(n) == IF n.ok THEN n.v ELSE 0

\* kind: "tag", "word", "percent" (\d+\.?\d*%), "parenPercent"
\* (\((\d+\.?\d*)%\), integral or not), "bytePair", "speed" (\d+\.?\d*\w+/?s),
\* "dlSpeed" (DL:<speed>), "etaGlued" (ETA:<eta>); arg is the text after the colon
Item(kind, text, arg, num, integral) ==
    [kind |-> kind, text |-> text, arg |-> arg, num |-> num, integral |-> integral,
     cur |-> NumText(FALSE, 0), ucur |-> "", tot |-> NumText(FALSE, 0), utot |-> ""]
Word(kind, t) == Item(kind, t, t, NumText(FALSE, 0), FALSE)
\* ([0-9.]+)\s*([kKmMgGtT]?i?B)/([0-9.]+)\s*([kKmMgGtT]?i?B)
BytePairItem(t, cur, ucur, tot, utot) ==
    [Word("bytePair", t) EXCEPT !.cur = cur, !.ucur = ucur, !.tot = tot, !.utot = utot]

DownloadTag == "[download]"
CustomTag == "download:[download]"

\* strings.ToUpper on the unit texts the byte-pair expression lets through
ToUpper(unit) ==
    CASE unit \in {"B"} -> "B"
      [] unit \in {"KB", "kB"} -> "KB"
      [] unit \in {"KiB", "kiB"} -> "KIB"
      [] unit \in {"MB", "mB"} -> "MB"
      [] unit \in {"MiB", "miB"} -> "MIB"
      [] unit \in {"GB", "gB"} -> "GB"
      [] unit \in {"GiB", "giB"} -> "GIB"
      [] unit \in {"TB", "tB"} -> "TB"
      [] unit \in {"TiB", "tiB"} -> "TIB"
      [] unit = "iB" -> "IB"
      [] OTHER -> unit

\* a multiplier base^exp (1e3 = 1000^1, 1024 * 1024 = 1024^2, ...)
Mult(base, exp) == [base |-> base, exp |-> exp]
RECURSIVE MultValue(_)
MultValue(mu) ==
    IF mu.exp = 0 THEN 1 ELSE mu.base * MultValue(Mult(mu.base, mu.exp - 1))

unitToMultiplier_decimal(unit) ==
    LET u == ToUpper(unit) IN
    CASE u \in {"KB", "KIB"} -> Mult(1000, 1)
      [] u \in {"MB", "MIB"} -> Mult(1000, 2)
      [] u \in {"GB", "GIB"} -> Mult(1000, 3)
      [] u \in {"TB", "TIB"} -> Mult(1000, 4)
      [] OTHER -> Mult(1, 1)
unitToMultiplier(unit) ==
    LET u == ToUpper(unit) IN
    CASE u = "B" -> Mult(1, 1)
      [] u = "KB" -> Mult(1000, 1)
      [] u = "KIB" -> Mult(1024, 1)
      [] u = "MB" -> Mult(1000, 2)
      [] u = "MIB" -> Mult(1024, 2)
      [] u = "GB" -> Mult(1000, 3)
      [] u = "GIB" -> Mult(1024, 3)
      [] u = "TB" -> Mult(1000, 4)
      [] u = "TIB" -> Mult(1024, 4)
      [] OTHER -> Mult(1, 1)

\* FindStringSubmatch: the leftmost of the matching positions, 0 when none
Leftmost(S) == IF S = {} THEN 0 ELSE CHOOSE i \in S : \A j \in S : i <= j

\* \[download\]\s+(\d+\.?\d*)% : the position of the percentage
ytdlpProgressRegex(l) ==
    Leftmost({i \in 2..Len(l) :
        l[i].kind = "percent" /\ l[i - 1].text \in {DownloadTag, CustomTag}})
\* download:\[download\].*?\((\d+\.?\d*)%\)
customProgressRegex(l) ==
    Leftmost({i \in 2..Len(l) :
        l[i].kind = "parenPercent" /\ \E j \in 1..(i - 1) : l[j].text = CustomTag})
aria2cProgressRegex_never(l) == 0
\* \((\d+)%\)
aria2cProgressRegex(l) ==
    Leftmost({i \in 1..Len(l) : l[i].kind = "parenPercent" /\ l[i].integral})
bytesProgressRegex(l) == Leftmost({i \in 1..Len(l) : l[i].kind = "bytePair"})
\* (?:DL:|at\s+)(\d+\.?\d*\w+/?s) : the text of the speed, "" when none
speedRegex(l) ==
    LET i == Leftmost({i \in 1..Len(l) :
                 \/ l[i].kind = "dlSpeed"
                 \/ l[i].kind = "speed" /\ i > 1 /\ l[i - 1].text = "at"})
    IN IF i = 0 THEN "" ELSE l[i].arg
etaRegex_glued(l) ==
    LET i == Leftmost({i \in 1..Len(l) : l[i].kind = "etaGlued"})
    IN IF i = 0 THEN "" ELSE l[i].arg
\* ETA[:\s]+(\S+) : the text after ETA, "" when none
etaRegex(l) ==
    LET i == Leftmost({i \in 1..Len(l) :
                 \/ l[i].kind = "etaGlued"
                 \/ i > 1 /\ l[i - 1].text = "ETA"})
    IN IF i = 0 THEN ""
       ELSE IF i > 1 /\ l[i - 1].text = "ETA" THEN l[i].text ELSE l[i].arg
IsInformational_download(l) ==
    \E i \in 1..Len(l) : l[i].text \in {DownloadTag, CustomTag}
\* strings.Contains(line, "[download]") || "[info]" || "Destination:"
IsInformational(l) ==
    \E i \in 1..Len(l) :
        l[i].text \in {DownloadTag, CustomTag, "[info]", "Destination:"}

\* a percentage as the exact fraction num/den
Ratio(num, den) == [num |-> num, den |-> den]
\* the arguments of m.sendProgress(line, percent, speed, eta)
ProgressEvent(l, pct, speed, eta) ==
    [scanned |-> TRUE, sent |-> TRUE, line |-> l, percent |-> pct,
     speed |-> speed, eta |-> eta]
\* the loop body sent nothing for the line
NoEvent == [scanned |-> TRUE, sent |-> FALSE, line |-> <<>>, percent |-> Ratio(0, 1),
            speed |-> "", eta |-> ""]
Unscanned == [NoEvent EXCEPT !.scanned = FALSE]

\* the body of "for scanner.Scan()" on one line
Classify(l) ==
    IF l = <<>> THEN NoEvent
    ELSE IF ytdlpProgressRegex(l) # 0
      THEN ProgressEvent(l, Ratio(ParseFloat(l[ytdlpProgressRegex(l)].num), 10),
                         speedRegex(l), etaRegex(l))
    ELSE IF customProgressRegex(l) # 0
      THEN ProgressEvent(l, Ratio(ParseFloat(l[customProgressRegex(l)].num), 10),
                         speedRegex(l), etaRegex(l))
    ELSE IF aria2cProgressRegex(l) # 0
      THEN ProgressEvent(l, Ratio(ParseFloat(l[aria2cProgressRegex(l)].num), 10),
                         speedRegex(l), etaRegex(l))
    ELSE IF bytesProgressRegex(l) # 0
      THEN LET bm == l[bytesProgressRegex(l)]
               cur == ParseFloat(bm.cur)
               tot == ParseFloat(bm.tot)
               mu == unitToMultiplier(bm.ucur)
               mt == unitToMultiplier(bm.utot)
           IN IF MultValue(mt) > 0 /\ tot > 0
                THEN ProgressEvent(l, Ratio(cur * MultValue(mu) * 100, tot * MultValue(mt)),
                                   speedRegex(l), etaRegex(l))
                ELSE NoEvent
    ELSE IF IsInformational(l) THEN ProgressEvent(l, Ratio(0, 1), "", "")
    ELSE NoEvent

\* the items output lines are made of
Items ==
    {Word("tag", DownloadTag), Word("tag", CustomTag), Word("tag", "[info]"),
     Word("tag", "Destination:"),
     Item("percent", "45.2%", "", NumText(TRUE, 452), FALSE),
     Item("percent", "250.0%", "", NumText(TRUE, 2500), FALSE),
     Item("parenPercent", "(36%)", "", NumText(TRUE, 360), TRUE),
     Item("parenPercent", "(12.5%)", "", NumText(TRUE, 125), FALSE),
     BytePairItem("1.0kB/2.0KiB", NumText(TRUE, 10), "kB", NumText(TRUE, 20), "KiB"),
     BytePairItem("1.0KB/0KB", NumText(TRUE, 10), "KB", NumText(TRUE, 0), "KB"),
     BytePairItem("1.0KB/1.2.3KB", NumText(TRUE, 10), "KB", NumText(FALSE, 0), "KB"),
     BytePairItem("3.0KB/2.0KiB", NumText(TRUE, 30), "KB", NumText(TRUE, 20), "KiB"),
     Word("word", "at"), Word("speed", "1.23MiB/s"), Word("word", "ETA"),
     Word("word", "01:23"),
     Item("dlSpeed", "DL:1.2MiB/s", "1.2MiB/s", NumText(FALSE, 0), FALSE),
     Item("etaGlued", "ETA:1m23s", "1m23s", NumText(FALSE, 0), FALSE)}

\* the progress line of yt-dlp, without and with its [download] tag
UntaggedProgressLine ==
    <<Item("percent", "45.2%", "", NumText(TRUE, 452), FALSE), Word("word", "of"),
      Word("word", "123.45MiB"), Word("word", "at"), Word("speed", "1.23MiB/s"),
      Word("word", "ETA"), Word("word", "01:23")>>
TaggedProgressLine == <<Word("tag", DownloadTag)>> \o UntaggedProgressLine

Lines == SeqsUpTo(Items, MaxTokens) \cup {UntaggedProgressLine, TaggedProgressLine}

\* ------------------------------------------- the line splitter (splitCRLF)
\* a byte is "a" (any byte but the two), "CR" or "LF"
\* bytes.IndexAny(data, "\r\n"), counted from 1; 0 when there is none
IndexAny(data) ==
    Leftmost({i \in 1..Len(data) : data[i] \in {"CR", "LF"}})

\* splitCRLF(data, atEOF): has is "token != nil"
splitCRLF(data, atEOF) ==
    LET i == IndexAny(data) IN
    IF i > 0
      THEN IF data[i] = "CR" /\ i + 1 <= Len(data) /\ data[i + 1] = "LF"
             THEN [advance |-> i + 1, has |-> TRUE, token |-> SubSeq(data, 1, i - 1)]
             ELSE [advance |-> i, has |-> TRUE, token |-> SubSeq(data, 1, i - 1)]
    ELSE IF atEOF /\ Len(data) > 0
      THEN [advance |-> Len(data), has |-> TRUE, token |-> data]
    ELSE [advance |-> 0, has |-> FALSE, token |-> <<>>]

\* the scanner of a reader: the stream, what of it is still to be read, the
\* buffered data, whether the read met the end, the tokens Scan returned
Scanner(input, pc) ==
    [input |-> input, unread |-> input, data |-> <<>>, atEOF |-> FALSE,
     tokens |-> <<>>, pc |-> pc]

ClassifierIdle == line = <<>> /\ event = Unscanned /\ scanner = Scanner(<<>>, "idle")

\* ------------------------------------------- the channel and the goroutines
Streams == {"stdout", "stderr"}

\* the percentage of the seq-th event of a source: the "Starting download..."
\* event and the first stderr line are informational (0); the others progress
EventPercent(src, seq) ==
    CASE src = "runDownload" -> 0
      [] src = "stdout" -> IF seq * 40 > 100 THEN 100 ELSE seq * 40
      [] src = "stderr" -> IF seq = 1 THEN 0 ELSE IF seq * 18 > 100 THEN 100 ELSE seq * 18

\* the first progress line of stdout names a speed and an ETA, the second
\* progress line of stderr a speed only, the other events neither
Event(src, seq) ==
    [downloadProgressMsg(src, seq, EventPercent(src, seq)) EXCEPT
        !.speed = IF src = "stdout" /\ seq = 1 THEN "1.23MiB/s"
                  ELSE IF src = "stderr" /\ seq = 2 THEN "2.0MiB/s" ELSE "",
        !.eta = IF src = "stdout" /\ seq = 1 THEN "01:23" ELSE ""]

\* sendProgress is a select with a default case: it is ready whatever the
\* channel holds
sendProgressReady_blocking(ch) == Len(ch) < ChanCap
sendProgressReady(ch) == TRUE

\* sendProgress: select { case progressChan <- msg: default: }
sendProgress_evict(ch, msg) ==
    IF Len(ch) < ChanCap THEN Append(ch, msg) ELSE Append(Tail(ch), msg)
sendProgress(ch, msg) == IF Len(ch) < ChanCap THEN Append(ch, msg) ELSE ch

\* the argument set runDownload builds, tui.go 684-726
TuiArgs(mm, c) ==
    [cookies |-> c.CookieBrowser,
     audio   |-> c.IsAudioOnly,
     format  |-> IF c.IsAudioOnly THEN ""
                 ELSE IF c.Resolution # "" THEN c.Resolution \o "+bestaudio/best"
                 ELSE "bestvideo+bestaudio/best",
     aria2c  |-> c.UseAria2c,
     args    |-> mm.Args]

NoCompletion == downloadCompleteMsg(FALSE, "")
IdleDownload ==
    [pc |-> "idle", spawned |-> 0, completion |-> NoCompletion,
     args |-> TuiArgs(NewModel, NewConfig)]

Running == prog \in {"run1", "run2"}

\* one pass of the event loop: Update on msg, then the returned commands are
\* started (tea.Quit ends the program and abandons what is outstanding)
Step(msg, pend, transit) ==
    LET r == Update(m, cfg, msg) IN
    /\ m' = r.m
    /\ cfg' = r.cfg
    /\ IF Quit \in r.cmds
         THEN /\ prog' = IF prog = "run1" THEN "main" ELSE "exit"
              /\ pending' = NoPending
              /\ animOn' = FALSE
              /\ inTransit' = {}
         ELSE /\ prog' = prog
              /\ pending' = [c \in AsyncCmds |->
                               pend[c] + IF c \in r.cmds THEN 1 ELSE 0]
              /\ animOn' = (animOn \/ "rainbowAnim" \in r.cmds)
              /\ inTransit' = transit
    /\ IF Quit \in r.cmds
         THEN \* the process of the program ends: its goroutines and channel go
              /\ dl' = IdleDownload
              /\ progressChan' = <<>>
              /\ emitted' = [s \in Streams |-> 0]
              /\ drops' = 0
              /\ lastApplied' = [s \in Streams |-> 0]
         ELSE /\ dl' = IF "go runDownload" \in r.cmds
                         THEN [dl EXCEPT !.pc = "start"] ELSE dl
              /\ lastApplied' =
                   IF msg.type = "downloadProgress" /\ msg.src \in Streams
                        /\ r.via = "updateDownloading"
                     THEN [lastApplied EXCEPT ![msg.src] = msg.seq]
                     ELSE lastApplied
              /\ UNCHANGED <<progressChan, emitted, drops>>

Dec(pend, c) == [pend EXCEPT ![c] = @ - 1]

\* receive chains alive: blocked waitForProgress commands and received messages
\* whose handling arms the next one
ReceiveChains == pending["waitForProgress"] + Cardinality(inTransit)

\* the user presses a key
KeyPress(k) ==
    /\ Running
    /\ (m.state = urlState /\ k \in RuneKeys) =>
           (k \in UrlRunes /\ Len(m.urlInput) < MaxUrlLen)
    /\ (m.state = downloadingState /\ k # "ctrl+c") => ReceiveChains < MaxRecv
    /\ Step(KeyMsg(k), pending, inTransit)
    /\ UNCHANGED <<engineVars, parserVars, destinationExists>>

\* the terminal reports its size (at program start, and on every resize)
WindowSize ==
    /\ Running
    /\ Step(WindowSizeMsg, pending, inTransit)
    /\ UNCHANGED <<engineVars, parserVars, destinationExists>>

\* a rainbowAnimMsg reaches the loop
AnimTick ==
    /\ Running
    /\ animOn
    /\ Step(rainbowAnimMsg, pending, inTransit)
    /\ UNCHANGED <<engineVars, parserVars, destinationExists>>

\* a tickMsg of a loading screen reaches the loop
TickFire ==
    /\ Running
    /\ pending["tick"] > 0
    /\ Step(tickMsg, Dec(pending, "tick"), inTransit)
    /\ UNCHANGED <<engineVars, parserVars, destinationExists>>

\* fetchMetadata: GetMetadata returned
MetadataFetched ==
    /\ Running
    /\ pending["fetchMetadata"] > 0
    /\ \E err \in MetadataErrors :
         Step(IF err = "" THEN metadataFetchedMsg("NA&NA&NA", "T", "")
                          ELSE metadataFetchedMsg("", "", err),
              Dec(pending, "fetchMetadata"), inTransit)
    /\ UNCHANGED <<engineVars, parserVars, destinationExists>>

\* detectBrowsersAsync: detectBrowsers returned
BrowsersDetected ==
    /\ Running
    /\ pending["detectBrowsers"] > 0
    /\ \E bs \in BrowserLists :
         Step(browsersDetectedMsg(bs), Dec(pending, "detectBrowsers"), inTransit)
    /\ UNCHANGED <<engineVars, parserVars, destinationExists>>

\* fetchFormats: GetFormats returned
FormatsFetched ==
    /\ Running
    /\ pending["fetchFormats"] > 0
    /\ \E msg \in {formatsFetchedMsg(cat, "") : cat \in Catalogs}
                    \cup {formatsFetchedMsg(<<>>, "ERROR: unable to list formats")} :
         Step(msg, Dec(pending, "fetchFormats"), inTransit)
    /\ UNCHANGED <<engineVars, parserVars, destinationExists>>

\* waitForProgress: return <-progressChan
waitForProgress ==
    /\ Running
    /\ pending["waitForProgress"] > 0
    /\ progressChan # <<>>
    /\ inTransit' = inTransit \cup {Head(progressChan)}
    /\ progressChan' = Tail(progressChan)
    /\ pending' = Dec(pending, "waitForProgress")
    /\ UNCHANGED <<cfg, prog, m, animOn, dl, emitted, drops, lastApplied, engineVars, parserVars, destinationExists>>

\* the message a waitForProgress returned reaches the loop
DeliverProgress ==
    /\ Running
    /\ \E msg \in inTransit : Step(msg, pending, inTransit \ {msg})
    /\ UNCHANGED <<engineVars, parserVars, destinationExists>>

Discarded(ch) == IF Len(ch) < ChanCap THEN 0 ELSE 1

\* runDownload: m.sendProgress("Starting download...", 0, "", "")
RunDownloadStart ==
    /\ prog = "run2"
    /\ dl.pc = "start"
    /\ progressChan' = sendProgress(progressChan, Event("runDownload", 1))
    /\ drops' = drops + Discarded(progressChan)
    /\ dl' = [dl EXCEPT !.pc = "spawn"]
    /\ UNCHANGED <<cfg, prog, m, pending, animOn, inTransit, emitted, lastApplied,
                   engineVars, parserVars, destinationExists>>

\* runDownload: StdoutPipe, StderrPipe, Start; an error of any of the three
\* goes to sendDownloadComplete(false, err), otherwise the readers start
RunDownloadSpawn ==
    /\ prog = "run2"
    /\ dl.pc = "spawn"
    /\ \E outcome \in {"ok", "StdoutPipe failed", "StderrPipe failed", "Start failed"} :
         dl' = IF outcome = "ok"
                 THEN [dl EXCEPT !.pc = "wait", !.spawned = @ + 1,
                                 !.args = TuiArgs(m, cfg)]
                 ELSE [dl EXCEPT !.pc = "send",
                                 !.completion = downloadCompleteMsg(FALSE, outcome)]
    /\ UNCHANGED <<cfg, prog, m, pending, animOn, inTransit, progressChan, emitted,
                   drops, lastApplied, engineVars, parserVars, destinationExists>>

\* cmd.Wait() returns with the exit status of the subprocess
ProcExit ==
    /\ prog = "run2"
    /\ dl.pc = "wait"
    /\ \E code \in {0, 1} :
         dl' = [dl EXCEPT !.pc = "send",
                          !.completion =
                              IF code = 0 THEN downloadCompleteMsg(TRUE, "")
                              ELSE downloadCompleteMsg(FALSE, "exit status 1")]
    /\ UNCHANGED <<cfg, prog, m, pending, animOn, inTransit, progressChan, emitted,
                   drops, lastApplied, engineVars, parserVars, destinationExists>>

\* sendDownloadComplete: progressChan <- downloadCompleteMsg, a blocking send
sendDownloadComplete ==
    /\ prog = "run2"
    /\ dl.pc = "send"
    /\ Len(progressChan) < ChanCap
    /\ progressChan' = Append(progressChan, dl.completion)
    /\ dl' = [dl EXCEPT !.pc = "done"]
    /\ UNCHANGED <<cfg, prog, m, pending, animOn, inTransit, emitted, drops,
                   lastApplied, engineVars, parserVars, destinationExists>>

\* parseOutput on one stream: a line that classifies to an event is handed
\* to sendProgress
parseOutput_direct(s) ==
    /\ prog = "run2"
    /\ dl.pc \in {"wait", "send"}
    /\ emitted[s] < MaxEvents
    /\ m' = ApplyProgress(m, Event(s, emitted[s] + 1))
    /\ emitted' = [emitted EXCEPT ![s] = @ + 1]
    /\ UNCHANGED <<cfg, prog, pending, animOn, inTransit, dl, lastApplied,
                   progressChan, drops, engineVars, parserVars, destinationExists>>
parseOutput(s) ==
    /\ prog = "run2"
    /\ dl.pc \in {"wait", "send"}
    /\ emitted[s] < MaxEvents
    /\ sendProgressReady(progressChan)
    /\ progressChan' = sendProgress(progressChan, Event(s, emitted[s] + 1))
    /\ drops' = drops + Discarded(progressChan)
    /\ emitted' = [emitted EXCEPT ![s] = @ + 1]
    /\ UNCHANGED <<cfg, prog, m, pending, animOn, inTransit, dl, lastApplied,
                   engineVars, parserVars, destinationExists>>

\* main after the selection program: nothing to download
MainExit ==
    /\ prog = "main"
    /\ m.URL = <<>> \/ ~m.Confirmed \/ m.PlaylistInfo = ""
    /\ prog' = "exit"
    /\ UNCHANGED <<cfg, m, pending, animOn, inTransit, progressChan, dl, emitted,
                   drops, lastApplied, engineVars, parserVars, destinationExists>>

\* main: utils.CreateUniqueTempDir fails
MainTempDirFails ==
    /\ prog = "main"
    /\ ~(m.URL = <<>> \/ ~m.Confirmed \/ m.PlaylistInfo = "")
    /\ prog' = "exit"
    /\ UNCHANGED <<cfg, m, pending, animOn, inTransit, progressChan, dl, emitted,
                   drops, lastApplied, engineVars, parserVars, destinationExists>>

\* main: TempDir and Args set, then RunDownloadOnly, whose Init returns
\* startDownload()
RunDownloadOnly ==
    /\ prog = "main"
    /\ ~(m.URL = <<>> \/ ~m.Confirmed \/ m.PlaylistInfo = "")
    /\ m' = [m EXCEPT !.TempDir = "tmp", !.Args = <<m.URL>>,
                      !.state = downloadingState]
    /\ prog' = "run2"
    /\ dl' = [dl EXCEPT !.pc = IF "go runDownload" \in startDownload
                                 THEN "start" ELSE @]
    /\ pending' = [c \in AsyncCmds |-> IF c \in startDownload THEN 1 ELSE 0]
    /\ UNCHANGED <<cfg, animOn, inTransit, progressChan, emitted, drops,
                   lastApplied, engineVars, parserVars, destinationExists>>

TuiIdle ==
    /\ m = NewModel
    /\ pending = NoPending
    /\ animOn = FALSE
    /\ inTransit = {}
    /\ progressChan = <<>>
    /\ dl = IdleDownload
    /\ emitted = [s \in Streams |-> 0]
    /\ drops = 0
    /\ lastApplied = [s \in Streams |-> 0]

Init ==
    /\ cfg = NewConfig
    /\ destinationExists \in BOOLEAN
    /\ prog = "run1"
    /\ TuiIdle
    /\ ClassifierIdle /\ ListingIdle
    /\ attempt = 1
    /\ dlpc = "idle"
    /\ runs = <<>>
    /\ result = "none"

Next ==
    \/ \E k \in Keys : KeyPress(k)
    \/ WindowSize
    \/ AnimTick
    \/ TickFire
    \/ MetadataFetched
    \/ BrowsersDetected
    \/ FormatsFetched
    \/ waitForProgress
    \/ DeliverProgress
    \/ RunDownloadStart
    \/ RunDownloadSpawn
    \/ ProcExit
    \/ sendDownloadComplete
    \/ MainExit
    \/ MainTempDirFails
    \/ RunDownloadOnly

\* the whole program, from the URL screen to the end of the download program,
\* with a subprocess whose output holds no line that classifies to an event
Spec == Init /\ [][Next]_vars

\* ------------------------------------------------- the download program
\* what main holds when the selection program has ended on 'y' after
\* URL "k", a metadata result, and "Audio only": NewModel and NewConfig with
\* the fields those handlers wrote
SelectedAudio(offset) ==
    [NewModel EXCEPT !.urlInput = <<"k">>, !.URL = <<"k">>, !.url = <<"k">>,
                     !.Title = "T", !.PlaylistInfo = "NA&NA&NA",
                     !.state = confirmationState, !.Confirmed = TRUE,
                     !.Args = <<<<"k">>>>, !.rainbowOffset = offset]

\* the values of rainbowOffset with which a handler can have run
StartedOffsets == {AnimStep * i : i \in 1..(AnimPeriod - 1)}

InitSession ==
    /\ destinationExists = FALSE
    /\ cfg = [NewConfig EXCEPT !.IsAudioOnly = TRUE]
    /\ prog = "main"
    /\ TuiIdle!2 /\ TuiIdle!3 /\ TuiIdle!4 /\ TuiIdle!5 /\ TuiIdle!6
    /\ TuiIdle!7 /\ TuiIdle!8 /\ TuiIdle!9 /\ ClassifierIdle /\ ListingIdle
    /\ \E o \in StartedOffsets : m = SelectedAudio(o)
    /\ attempt = 1
    /\ dlpc = "idle"
    /\ runs = <<>>
    /\ result = "none"

NextSession ==
    \/ \E k \in Keys : KeyPress(k)
    \/ WindowSize
    \/ AnimTick
    \/ waitForProgress
    \/ DeliverProgress
    \/ RunDownloadStart
    \/ RunDownloadSpawn
    \/ ProcExit
    \/ sendDownloadComplete
    \/ \E s \in Streams : parseOutput(s)
    \/ MainTempDirFails
    \/ RunDownloadOnly

\* main's download program (RunDownloadOnly) after that selection, with a
\* subprocess that writes to both streams
SpecSession == InitSession /\ [][NextSession]_vars

\* the Go scheduler runs every goroutine that can run, and the tea loop takes
\* every message sent to it; nothing obliges the user to press a key, the
\* terminal to change size or the subprocess to exit
FairSession ==
    /\ SpecSession
    /\ WF_vars(RunDownloadOnly)
    /\ WF_vars(AnimTick)
    /\ WF_vars(waitForProgress)
    /\ WF_vars(DeliverProgress)
    /\ WF_vars(RunDownloadStart)
    /\ WF_vars(RunDownloadSpawn)
    /\ WF_vars(sendDownloadComplete)
    /\ \A s \in Streams : WF_vars(parseOutput(s))

\* the selection SpecSession starts from is one the whole program reaches
SessionStartReached == ~(prog = "main" /\ cfg = [NewConfig EXCEPT !.IsAudioOnly = TRUE]
                          /\ \E o \in StartedOffsets : m = SelectedAudio(o))

\* ------------------------------------- one call of Download (CLI mode)
InitDownload ==
    /\ destinationExists = FALSE
    /\ cfg \in {Config(n, audio, res, cookie, aria) :
                  n \in 0..MaxN, audio \in BOOLEAN, res \in {"", "137"},
                  cookie \in {"", "firefox"}, aria \in BOOLEAN}
    /\ attempt = 1
    /\ dlpc = "loop"
    /\ runs = <<>>
    /\ result = "none"
    /\ prog = "cli"
    /\ TuiIdle
    /\ ClassifierIdle /\ ListingIdle

NextDownload ==
    \/ DlAttempt
    \/ DlFallback
    \/ DlNoFallback
    \/ DlRetry
    \/ DlExhausted

SpecDownload == InitDownload /\ [][NextDownload]_vars

\* ------------------------------------------- GetFormats on one tool output
InitFormats ==
    /\ destinationExists = FALSE
    /\ cfg = NewConfig
    /\ prog = "run1"
    /\ TuiIdle
    /\ attempt = 1
    /\ dlpc = "idle"
    /\ runs = <<>>
    /\ result = "none"
    /\ ClassifierIdle
    /\ listing \in Listings
    /\ catalog = NotListed

\* the call of GetFormats on the output
ListFormats ==
    /\ ~catalog.done
    /\ catalog' = GetFormats(listing)
    /\ UNCHANGED <<cfg, engineVars, tuiVars, line, event, listing, scanner, destinationExists>>

NextFormats == ListFormats

SpecFormats == InitFormats /\ [][NextFormats]_vars

\* ------------------------------------------- the scanner on one stream
InitSplit ==
    /\ cfg = NewConfig
    /\ destinationExists = FALSE
    /\ prog = "run2"
    /\ TuiIdle
    /\ attempt = 1
    /\ dlpc = "idle"
    /\ runs = <<>>
    /\ result = "none"
    /\ line = <<>> /\ event = Unscanned /\ ListingIdle
    /\ \E input \in SeqsUpTo({"a", "CR", "LF"}, MaxStream) :
          scanner = Scanner(input, "read")

\* Scan needs more data: one Read of the pipe, which gives some of the bytes
\* that remain, or tells the end of the stream
ScannerRead ==
    /\ scanner.pc = "read"
    /\ IF scanner.unread = <<>>
         THEN scanner' = [scanner EXCEPT !.atEOF = TRUE, !.pc = "split"]
         ELSE \E n \in 1..Len(scanner.unread) :
                scanner' = [scanner EXCEPT
                              !.data = @ \o SubSeq(scanner.unread, 1, n),
                              !.unread = SubSeq(@, n + 1, Len(@)),
                              !.pc = "split"]
    /\ UNCHANGED <<cfg, engineVars, tuiVars, line, event, listing, catalog,
                   destinationExists>>

\* Scan calls the split function on the buffered data: a token is returned
\* to the loop of parseOutput, otherwise Scan reads more or ends
ScannerSplit ==
    /\ scanner.pc = "split"
    /\ LET r == splitCRLF(scanner.data, scanner.atEOF) IN
       scanner' =
          IF (scanner.data # <<>> \/ scanner.atEOF) /\ r.has
            THEN [scanner EXCEPT !.tokens = Append(@, r.token),
                                 !.data = SubSeq(@, r.advance + 1, Len(@))]
          ELSE IF scanner.atEOF THEN [scanner EXCEPT !.pc = "done"]
          ELSE [scanner EXCEPT !.pc = "read"]
    /\ UNCHANGED <<cfg, engineVars, tuiVars, line, event, listing, catalog,
                   destinationExists>>

NextSplit == ScannerRead \/ ScannerSplit

SpecSplit == InitSplit /\ [][NextSplit]_vars

\* ------------------------------------------- parseOutput on one line of output
\* the reader goroutine holds a line the scanner returned
InitClassifier ==
    /\ destinationExists = FALSE
    /\ cfg = NewConfig
    /\ prog = "run2"
    /\ TuiIdle
    /\ attempt = 1
    /\ dlpc = "idle"
    /\ runs = <<>>
    /\ result = "none"
    /\ line \in Lines
    /\ event = Unscanned
    /\ scanner = Scanner(<<>>, "idle")
    /\ ListingIdle

\* one pass of the scanner loop over the line
ScanLine ==
    /\ ~event.scanned
    /\ event' = Classify(line)
    /\ UNCHANGED <<cfg, engineVars, tuiVars, line, listing, catalog, scanner, destinationExists>>

NextClassifier == ScanLine

SpecClassifier == InitClassifier /\ [][NextClassifier]_vars

\* ------------------------------------------------- the runs of one call
RunsOnly == SelectSeq(runs, LAMBDA e : e.kind = "run")
PrimaryRuns == SelectSeq(runs, LAMBDA e : e.kind = "run" /\ ~e.fallback)
FallbackRuns == SelectSeq(runs, LAMBDA e : e.kind = "run" /\ e.fallback)
AllFailed == \A i \in 1..Len(RunsOnly) : RunsOnly[i].exit # 0

\* C1: with a retry budget N >= 1 and every run exiting non-zero, a finished
\* Download has made exactly N primary runs followed by exactly one fallback
\* run (N+1 runs) and returns failure.
C1_AllFail ==
    (dlpc = "done" /\ cfg.MaxRetries >= 1 /\ AllFailed) =>
        /\ result = "failure"
        /\ Len(RunsOnly) = cfg.MaxRetries + 1
        /\ \A i \in 1..cfg.MaxRetries :
             ~RunsOnly[i].fallback /\ RunsOnly[i].args = PrimaryArgs(cfg)
        /\ RunsOnly[cfg.MaxRetries + 1].fallback
        /\ RunsOnly[cfg.MaxRetries + 1].args = FallbackArgs(cfg)

\* C1 witness: a call with the largest budget whose N+1 runs all failed
C1_Witness ==
    /\ dlpc = "done"
    /\ cfg.MaxRetries = MaxN
    /\ AllFailed
    /\ result = "failure"
    /\ Len(RunsOnly) = MaxN + 1

\* a run that exits zero is the last run of the call, which returns success
C2_SuccessStops ==
    \A i \in 1..Len(RunsOnly) :
        RunsOnly[i].exit = 0 =>
            i = Len(RunsOnly) /\ dlpc = "done" /\ result = "success"

\* failure is returned only after a fallback run, the last run, has failed
C2_FailureAfterFallback ==
    result = "failure" =>
        /\ Len(FallbackRuns) >= 1
        /\ RunsOnly[Len(RunsOnly)].fallback
        /\ RunsOnly[Len(RunsOnly)].exit # 0

StubFailsFirst(k) ==
    \A i \in 1..Len(RunsOnly) : (RunsOnly[i].exit # 0) <=> (i <= k)

\* C3 as stated: against a subprocess that fails its first N-1 runs and
\* succeeds from then on, Download reports success and exactly one run of
\* the call used the fallback argument set.
C3_Original ==
    (dlpc = "done" /\ cfg.MaxRetries >= 1 /\ StubFailsFirst(cfg.MaxRetries - 1)) =>
        result = "success" /\ Len(FallbackRuns) = 1

\* C3 amended: against a subprocess that fails its first N runs (every
\* primary attempt) and succeeds on the next one, Download reports success,
\* and exactly one run, the last of N+1, used the fallback argument set.
C3_FallbackSucceeds ==
    (dlpc = "done" /\ cfg.MaxRetries >= 1 /\ StubFailsFirst(cfg.MaxRetries)) =>
        /\ result = "success"
        /\ Len(FallbackRuns) = 1
        /\ Len(RunsOnly) = cfg.MaxRetries + 1
        /\ \A i \in 1..cfg.MaxRetries : ~RunsOnly[i].fallback
        /\ RunsOnly[cfg.MaxRetries + 1].fallback
        /\ RunsOnly[cfg.MaxRetries + 1].args = FallbackArgs(cfg)

\* C3 witness: every primary run failed and the fallback run succeeded
C3_Witness ==
    /\ dlpc = "done"
    /\ cfg.MaxRetries = MaxN
    /\ StubFailsFirst(MaxN)
    /\ result = "success"
    /\ Len(FallbackRuns) = 1

\* ------------------------------------------------------- the session claims
\* C4: in the interactive session the Downloading screen reaches the failed
\* terminal screen on a non-zero exit only after all N primary attempts and
\* the fallback attempt have failed (N+1 runs of the subprocess), never
\* after a single failed run.
C4_FailureAfterAllAttempts ==
    (prog = "run2" /\ m.state = downloadCompleteState
       /\ m.downloadError = "exit status 1") =>
        dl.spawned = cfg.MaxRetries + 1

CompletionsInFlight ==
    Len(SelectSeq(progressChan, LAMBDA x : x.type = "downloadComplete"))
      + Cardinality({x \in inTransit : x.type = "downloadComplete"})

\* C5: one download session produces exactly one completion message, whatever
\* path runDownload takes, and the loop applies exactly one: once produced
\* the message is on its way while the session is Downloading, or it has
\* been applied and the session is on the terminal screen.
C5_OneCompletionApplied ==
    prog = "run2" =>
        /\ CompletionsInFlight <= 1
        /\ (m.state = downloadCompleteState) => (dl.pc = "done" /\ CompletionsInFlight = 0)
        /\ (dl.pc = "done") =>
              \/ CompletionsInFlight = 1 /\ m.state = downloadingState
              \/ CompletionsInFlight = 0 /\ m.state = downloadCompleteState

\* C6: once the subprocess has exited, the completion message is eventually
\* received and applied, so the session leaves Downloading for the terminal
\* screen (or the user has ended it).
C6_CompletionEventuallyApplied ==
    (prog = "run2" /\ dl.spawned = 1 /\ dl.pc \in {"send", "done"})
        ~> (m.state = downloadCompleteState \/ prog = "exit")

ReaderHasLine(s) ==
    prog = "run2" /\ dl.pc \in {"wait", "send"} /\ emitted[s] < MaxEvents

\* C7: sendProgress never blocks a stream reader: a reader with a line to
\* send can always take its step, which leaves a full channel unchanged
\* (the event is discarded) and appends the event otherwise.
C7_SendNeverBlocks ==
    /\ [](\A s \in Streams : ReaderHasLine(s) => ENABLED parseOutput(s))
    /\ [][\A s \in Streams :
            emitted'[s] # emitted[s] /\ prog' = "run2" =>
                IF Len(progressChan) = ChanCap
                  THEN progressChan' = progressChan /\ drops' = drops + 1
                  ELSE progressChan' = Append(progressChan, Event(s, emitted'[s]))
                       /\ drops' = drops]_vars

\* C7 witness: the channel is full and a reader's event has been discarded
C7_Witness ==
    /\ prog = "run2"
    /\ Len(progressChan) = ChanCap
    /\ drops > 0
    /\ \E s \in Streams : emitted[s] > 0

\* C8: two progress events of one output stream that both reach the loop are
\* applied in their emission order, under every interleaving of readers,
\* receivers and key presses.
C8_PerStreamOrder ==
    [][prog' = "run2" => \A s \in Streams : lastApplied'[s] >= lastApplied[s]]_vars

\* C9: in every screen and every reachable value of the other fields, a
\* Ctrl+C key event given to Update makes the session quit.
C9_InterruptQuits ==
    Running => Quit \in Update(m, cfg, KeyMsg("ctrl+c")).cmds

ChoiceStates == {browserSelectionState, formatState, resolutionState}
PreviousKeys == {"up", "k"}
NextKeys == {"down", "j"}

OperationCmds == {"fetchMetadata", "detectBrowsers", "fetchFormats", "go runDownload"}

\* the asynchronous operations in flight: queries whose result has not come
\* back, and the download goroutine until it has sent its completion
AsyncOps ==
    pending["fetchMetadata"] + pending["detectBrowsers"] + pending["fetchFormats"]
      + (IF dl.pc \in {"start", "spawn", "wait", "send"} THEN 1 ELSE 0)

\* C11: at every moment at most one asynchronous operation (metadata query,
\* browser detection, format query, download) is pending, and while one is
\* pending no key press (a repeated Enter included) makes Update issue
\* another.
C11_OneOperationInFlight ==
    /\ AsyncOps <= 1
    /\ (Running /\ AsyncOps = 1) =>
          \A k \in Keys : Update(m, cfg, KeyMsg(k)).cmds \cap OperationCmds = {}

\* C11 witness: the second metadata query of a session (after the browser
\* was chosen with Enter) is pending, and a further Enter reaches Update
C11_Witness ==
    /\ prog = "run1"
    /\ pending["fetchMetadata"] = 1
    /\ cfg.CookieBrowser # ""
    /\ m.state = metadataLoadingState
    /\ ~AnimationNotStarted(m)
    /\ Update(m, cfg, KeyMsg("enter")).cmds = {}

\* the recovery branch is open: an age-restriction failure was applied and no
\* browser has been chosen yet
AwaitingBrowser == m.needsBrowser /\ cfg.CookieBrowser = ""
NoBrowserError == "Age-restricted video. No supported browsers found"

FormatDirective(resolution) ==
    IF resolution = "" THEN "bestvideo+bestaudio/best"
    ELSE resolution \o "+bestaudio/best"

\* C13: picking row i >= 1 of ResolutionChoice selects the ID of the format
\* displayed on that row and picking row 0 selects none; the selection is
\* not changed afterwards; the argument set of the download then carries
\* '<id>+bestaudio/best', or 'bestvideo+bestaudio/best' for row 0; and when
\* the subprocess has exited zero the terminal result is Success.
C13_PickedFormatDownloaded ==
    /\ [][(m.state = resolutionState /\ m'.state = confirmationState) =>
              /\ m.videoFormats # <<>>
              /\ Len(m.choices) = Len(m.videoFormats) + 1
              /\ IF m.cursor = 0
                   THEN cfg'.Resolution = ""
                   ELSE /\ m.choices[m.cursor + 1] = ChoiceLabel(m.videoFormats[m.cursor])
                        /\ cfg'.Resolution = m.videoFormats[m.cursor].ID
              /\ ~cfg'.IsAudioOnly]_vars
    /\ [][(m.state \in {confirmationState, downloadingState, downloadCompleteState}) =>
              (cfg'.Resolution = cfg.Resolution /\ cfg'.IsAudioOnly = cfg.IsAudioOnly)]_vars
    /\ []((prog = "run2" /\ dl.spawned = 1 /\ ~cfg.IsAudioOnly) =>
              /\ dl.args.format = FormatDirective(cfg.Resolution)
              /\ ~dl.args.audio
              /\ dl.args.args = <<m.URL>>)
    /\ []((prog = "run2" /\ m.state = downloadCompleteState /\ dl.completion.success) =>
              (m.downloadComplete /\ m.downloadError = ""))

\* C13 witness: row 2 (720p, id 136) was picked, the subprocess was started
\* with '136+bestaudio/best', exited zero, and the session shows Success
C13_Witness ==
    /\ prog = "run2"
    /\ m.videoFormats = <<F1080, F720>>
    /\ cfg.Resolution = F720.ID
    /\ dl.spawned = 1
    /\ dl.args.format = "136+bestaudio/best"
    /\ dl.completion.success
    /\ m.state = downloadCompleteState
    /\ m.downloadComplete

\* the session ended on the input error of updateURL
InputError == m.errorMsg = "No URL provided"
\* nothing or only spaces has been typed
IsBlank(s) == \A i \in 1..Len(s) : s[i] = " "

DownloadScreens == {downloadingState, downloadCompleteState}

C16_PercentWithinRange ==
    event.sent =>
        /\ 0 <= event.percent.num
        /\ event.percent.num <= 100 * event.percent.den

\* ---------------------------------------------------------------- C17
\* the byte-pair branch is the one the line reaches
OnlyBytePair(l) ==
    /\ ytdlpProgressRegex(l) = 0
    /\ customProgressRegex(l) = 0
    /\ aria2cProgressRegex(l) = 0
    /\ bytesProgressRegex(l) # 0
\* C17: a byte pair with a zero or unparsable total yields no event, not even an
\* informational one; with a positive total the percentage is
\* current*mult(unit)/(total*mult(unit))*100, where KB/MB/GB/TB are powers of 1000
\* and KiB/MiB/GiB/TiB are powers of 1024
C17_BytePairPercent ==
    LET DecimalUnits == <<"KB", "MB", "GB", "TB">>
        BinaryUnits == <<"KiB", "MiB", "GiB", "TiB">>
        Factor(u) == IF u = "KB" THEN 1000 ELSE IF u = "KiB" THEN 1024 ELSE 0
    IN
    /\ \A k \in 1..4 :
          /\ unitToMultiplier(DecimalUnits[k]) = Mult(1000, k)
          /\ unitToMultiplier(BinaryUnits[k]) = Mult(1024, k)
    /\ (event.scanned /\ OnlyBytePair(line)) =>
          LET bm == line[bytesProgressRegex(line)] IN
          /\ (~bm.tot.ok \/ bm.tot.v = 0) => ~event.sent
          /\ (bm.tot.ok /\ bm.tot.v > 0) => event.sent
          /\ (bm.tot.ok /\ bm.tot.v > 0 /\ Factor(bm.ucur) > 0 /\ Factor(bm.utot) > 0) =>
                /\ event.percent.num = bm.cur.v * Factor(bm.ucur) * 100
                /\ event.percent.den = bm.tot.v * Factor(bm.utot)
\* an informational line whose byte pair has a zero total was scanned
C17_Witness ==
    /\ event.scanned
    /\ OnlyBytePair(line)
    /\ IsInformational(line)
    /\ line[bytesProgressRegex(line)].tot = NumText(TRUE, 0)
    /\ ~event.sent

\* ---------------------------------------------------------------- C18
\* C18: while the session is in Downloading, no applied event lowers the
\* percentage of the progress snapshot
C18_PercentNeverDecreases ==
    [][(m.state = downloadingState /\ m'.state = downloadingState)
          => m'.downloadPercent >= m.downloadPercent]_vars

\* ---------------------------------------------------------------- C19
ExpectedProgress(l) == ProgressEvent(l, Ratio(452, 10), "1.23MiB/s", "01:23")
\* C19 as stated: the line without the [download] tag classifies to 45.2%,
\* 1.23MiB/s, 01:23
C19_Original ==
    (event.scanned /\ line = UntaggedProgressLine) =>
        event = ExpectedProgress(UntaggedProgressLine)
\* C19: the line "[download]  45.2% of 123.45MiB at 1.23MiB/s ETA 01:23"
\* classifies to one event with percent 45.2, speed 1.23MiB/s and ETA 01:23
C19_TaggedLineClassified ==
    (event.scanned /\ line = TaggedProgressLine) =>
        event = ExpectedProgress(TaggedProgressLine)
\* the tagged progress line was scanned
C19_Witness == event.scanned /\ line = TaggedProgressLine

\* ---------------------------------------------------------------- C20
\* C20: the catalog GetFormats returns has no audio format, only heights
\* greater than 0, and at most one format for each height
C20_CatalogVideoOnePerHeight ==
    catalog.done =>
        LET fs == catalog.formats IN
        /\ \A i \in 1..Len(fs) : ~fs[i].IsAudio /\ fs[i].Height > 0
        /\ \A i, j \in 1..Len(fs) : fs[i].Height = fs[j].Height => i = j
\* an output with an audio line and two video lines of one height was listed,
\* and the catalog has a format
C20_Witness ==
    /\ catalog.done
    /\ Len(catalog.formats) > 0
    /\ \E i \in 1..Len(listing.lines) :
          listing.lines[i].marker = "audio only" /\ listing.lines[i].ext # ""
    /\ \E i, j \in 1..Len(listing.lines) :
          /\ i # j
          /\ listing.lines[i].marker = "video only" /\ listing.lines[j].marker = "video only"
          /\ listing.lines[i].res = listing.lines[j].res
          /\ listing.lines[i].res.v > 0

\* ---------------------------------------------------------------- C21
\* the output is two video lines of one height, ln its first or second line
TwoCandidates ==
    /\ catalog.done /\ ~listing.failed /\ Len(listing.lines) = 2
    /\ \A i \in 1..2 : listing.lines[i].marker = "video only" /\ ~listing.lines[i].short
    /\ listing.lines[1].res = listing.lines[2].res
    /\ listing.lines[1].res.ok /\ listing.lines[1].res.v > 0
\* the catalog is the one format read from line i
Retains(i) == Len(catalog.formats) = 1 /\ catalog.formats[1].ID = listing.lines[i].id
\* C21: of two video lines of equal height and different extensions, one of
\* them mp4, GetFormats retains the mp4 one, whichever comes first
C21_Mp4Retained ==
    \A i \in 1..2 :
        (TwoCandidates /\ listing.lines[i].ext = "mp4" /\ listing.lines[3 - i].ext # "mp4")
            => Retains(i)

\* ---------------------------------------------------------------- C22
\* C22: of two video lines of equal height and equal extension, one with the
\* protocol http or https and one with m3u8, GetFormats retains the http(s)
\* one, whichever comes first
C22_DirectRetained ==
    \A i \in 1..2 :
        (/\ TwoCandidates
         /\ listing.lines[1].ext = listing.lines[2].ext
         /\ listing.lines[1].note = listing.lines[2].note
         /\ listing.lines[i].proto \in {"http", "https"}
         /\ listing.lines[3 - i].proto = "m3u8")
            => Retains(i)

\* ---------------------------------------------------------------- C23
\* C23: the catalog is sorted by strictly decreasing height and has no default
\* entry of its own; the resolution screen puts "Default (best available)"
\* first, followed by one choice for each format of the catalog
C23_SortedDefaultPrepended ==
    /\ \A cat \in Catalogs : \A i \in 1..Len(cat) : cat[i].ID # "" /\ cat[i].Height > 0
    /\ m.state = resolutionState =>
          /\ m.videoFormats \in Catalogs
          /\ \A i, j \in 1..Len(m.videoFormats) :
                i < j => m.videoFormats[i].Height > m.videoFormats[j].Height
          /\ m.choices[1] = "Default (best available)"
          /\ Len(m.choices) = Len(m.videoFormats) + 1
          /\ \A i \in 1..Len(m.videoFormats) :
                m.choices[i + 1] = ChoiceLabel(m.videoFormats[i])
\* the resolution screen shows a catalog of two formats
C23_Witness == m.state = resolutionState /\ Len(m.videoFormats) = 2

\* ---------------------------------------------------------------- C24
\* C24: when the file of the single video is already in the original
\* directory, no download subprocess is started
C24_DuplicateSkipped == destinationExists => dl.spawned = 0

\* ---------------------------------------------------------------- C25
IsWait(i) == runs[i].kind = "wait"
IsFailedPrimary(i) == runs[i].kind = "run" /\ ~runs[i].fallback /\ runs[i].exit # 0
\* C25: one backoff wait follows each failed primary attempt k < N and
\* precedes attempt k+1; none stands between the failed attempt N and the
\* fallback run, nor after the fallback run; N-1 waits when every run fails
C25_WaitBetweenAttempts ==
    /\ \A i \in 1..Len(runs) :
          /\ IsWait(i) =>
                /\ i > 1 /\ IsFailedPrimary(i - 1)
                /\ runs[i - 1].attempt = runs[i].attempt
                /\ runs[i].attempt < cfg.MaxRetries
                /\ i < Len(runs) =>
                      /\ runs[i + 1].kind = "run" /\ ~runs[i + 1].fallback
                      /\ runs[i + 1].attempt = runs[i].attempt + 1
          /\ (IsFailedPrimary(i) /\ i < Len(runs)) =>
                IF runs[i].attempt < cfg.MaxRetries
                  THEN IsWait(i + 1)
                  ELSE runs[i + 1].kind = "run" /\ runs[i + 1].fallback
          /\ (runs[i].kind = "run" /\ runs[i].fallback) => i = Len(runs)
    /\ (dlpc = "done" /\ result = "failure" /\ cfg.MaxRetries >= 1) =>
          Len(SelectSeq(runs, LAMBDA e : e.kind = "wait")) = cfg.MaxRetries - 1
\* a call with N = MaxN has ended in failure after its waits
C25_Witness ==
    /\ dlpc = "done" /\ result = "failure" /\ cfg.MaxRetries = MaxN
    /\ Len(SelectSeq(runs, LAMBDA e : e.kind = "wait")) = MaxN - 1

\* ---------------------------------------------------------------- C26
\* C26: all primary attempts of one call are spawned with the same argument
\* set, that of the configuration, whatever the attempt number
C26_SamePrimaryArguments ==
    \A i \in 1..Len(PrimaryRuns) :
        /\ PrimaryRuns[i].args = PrimaryRuns[1].args
        /\ PrimaryRuns[i].args.cookies = cfg.CookieBrowser
        /\ PrimaryRuns[i].args.aria2c = cfg.UseAria2c
        /\ PrimaryRuns[i].attempt = i
\* a third primary attempt was made for a chosen resolution
C26_Witness ==
    Len(PrimaryRuns) >= 3 /\ cfg.Resolution # "" /\ ~cfg.IsAudioOnly

\* ---------------------------------------------------------------- C27
\* C27: the fallback run stays audio-only for an audio-only request, asks for
\* "bestvideo[height<=1080]+bestaudio/best" for a video request whatever the
\* chosen resolution, and has the cookie flag and the aria2c directive exactly
\* when the primary attempt before it had them
C27_FallbackArguments ==
    \A i \in 1..Len(runs) :
        (runs[i].kind = "run" /\ runs[i].fallback) =>
            /\ i > 1 /\ IsFailedPrimary(i - 1)
            /\ runs[i].args.audio = cfg.IsAudioOnly
            /\ runs[i].args.audio = runs[i - 1].args.audio
            /\ runs[i].args.format =
                  IF cfg.IsAudioOnly THEN "" ELSE "bestvideo[height<=1080]+bestaudio/best"
            /\ runs[i].args.cookies = runs[i - 1].args.cookies
            /\ runs[i].args.aria2c = runs[i - 1].args.aria2c
\* a fallback run was made for a chosen resolution with cookies and aria2c
C27_Witness ==
    /\ Len(FallbackRuns) = 1
    /\ cfg.Resolution # "" /\ ~cfg.IsAudioOnly
    /\ cfg.CookieBrowser # "" /\ cfg.UseAria2c

NoProgressShape(l) ==
    /\ ytdlpProgressRegex(l) = 0
    /\ customProgressRegex(l) = 0
    /\ aria2cProgressRegex(l) = 0
    /\ bytesProgressRegex(l) = 0
\* C29: a non-empty line that matches no progress shape yields one event with
\* percent 0 and empty speed and ETA when it contains "[download]", "[info]"
\* or "Destination:", and no event otherwise; an empty line yields no event
C29_InformationalOrDropped ==
    LET hasMarker == \E i \in 1..Len(line) :
                        line[i].text \in {"[download]", "download:[download]", "[info]",
                                          "Destination:"}
    IN (event.scanned /\ NoProgressShape(line)) =>
          /\ (line # <<>> /\ hasMarker) =>
                event = ProgressEvent(line, Ratio(0, 1), "", "")
          /\ (line = <<>> \/ ~hasMarker) => ~event.sent
\* an "[info]" line that names a speed was scanned
C29_Witness ==
    /\ event.scanned /\ event.sent
    /\ NoProgressShape(line)
    /\ line[1].text = "[info]"
    /\ speedRegex(line) # ""

\* ---------------------------------------------------------------- C30
\* the tokens of a stream that is in the buffer whole: each CR, each LF and
\* each CR LF pair ends one token, and what follows the last of them is a token
RECURSIVE WholeTokens(_)
WholeTokens(data) ==
    LET r == splitCRLF(data, TRUE) IN
    IF ~r.has THEN <<>>
    ELSE <<r.token>> \o WholeTokens(SubSeq(data, r.advance + 1, Len(data)))
\* C30: however the stream is cut into reads, the tokens end at each CR, each
\* LF and each CR LF pair (one separator), hold no CR or LF, and a last
\* unterminated segment is returned at the end of the stream
C30_TokensWhateverTheReads ==
    /\ \A i \in 1..Len(scanner.tokens) : \A j \in 1..Len(scanner.tokens[i]) :
          scanner.tokens[i][j] = "a"
    /\ scanner.pc = "done" => scanner.tokens = WholeTokens(scanner.input)

\* ---------------------------------------------------------------- C31
\* C31: a progress event applied in Downloading replaces the raw line, the
\* percentage, the speed and the ETA of the snapshot by the event's (an absent
\* speed or ETA clears the previous one), leaves the screen and every
\* selection field as they were, and arms one more receive
C31_SnapshotReplaced ==
    [][\A msg \in inTransit :
          (/\ msg.type = "downloadProgress"
           /\ inTransit' = inTransit \ {msg}
           /\ prog' = prog
           /\ m.state = downloadingState
           /\ ~AnimationNotStarted(m))
          => /\ m' = [m EXCEPT !.downloadProgress = <<msg.src, msg.seq>>,
                               !.downloadPercent = msg.percent,
                               !.downloadSpeed = msg.speed,
                               !.downloadETA = msg.eta]
             /\ cfg' = cfg
             /\ pending' = [pending EXCEPT !["waitForProgress"] = @ + 1]]_vars
\* an event without speed was applied after the one that named a speed
C31_Witness ==
    /\ m.state = downloadingState
    /\ lastApplied["stdout"] = 1
    /\ m.downloadProgress # <<"stdout", 1>>
    /\ m.downloadProgress # <<>>
    /\ m.downloadSpeed = ""

MaxEmit == 1
NextStreams ==
    \/ \E k \in Keys : KeyPress(k)
    \/ WindowSize
    \/ AnimTick
    \/ TickFire
    \/ MetadataFetched
    \/ BrowsersDetected
    \/ FormatsFetched
    \/ waitForProgress
    \/ DeliverProgress
    \/ RunDownloadStart
    \/ RunDownloadSpawn
    \/ ProcExit
    \/ sendDownloadComplete
    \/ \E s \in Streams : emitted[s] < MaxEmit /\ parseOutput(s)
    \/ MainExit
    \/ MainTempDirFails
    \/ RunDownloadOnly

SpecStreams == Init /\ [][NextStreams]_vars

\* C34: a step of the download goroutine or of a stream reader (the goroutine
\* advances, a reader emits, the channel grows or discards) writes neither a
\* session field nor a configuration field, and a receive only moves a message
\* from the channel to the loop; a step that writes a configuration field has
\* no metadata query, format query or browser detection outstanding across it
\* and no download goroutine that has yet to read the configuration.
C34_SessionWrittenOnlyByLoop ==
    [][/\ (prog' = prog /\ (\/ dl' # dl /\ dl.pc # "idle"
                            \/ emitted' # emitted
                            \/ drops' # drops
                            \/ Len(progressChan') > Len(progressChan)))
            => m' = m /\ cfg' = cfg /\ inTransit' = inTransit
       /\ (prog' = prog /\ Len(progressChan') < Len(progressChan))
            => /\ m' = m /\ cfg' = cfg
               /\ inTransit' = inTransit \cup {Head(progressChan)}
       /\ cfg' # cfg
            => /\ \A c \in {"fetchMetadata", "detectBrowsers", "fetchFormats"} :
                     pending[c] = 0 \/ pending'[c] = 0
               /\ dl.pc \notin {"start", "spawn"}]_vars
\* a stream reader has emitted and the loop has applied an event of stderr
\* while the other reader's event waits in the channel
C34_Witness ==
    /\ prog = "run2"
    /\ cfg.CookieBrowser # ""
    /\ emitted["stdout"] > 0
    /\ lastApplied["stderr"] > 0
    /\ progressChan # <<>>

\* C35: for every value of rainbowOffset, 0 included, a message that is
\* neither a window size nor an animation tick is given by Update to the
\* handler of the current screen: what Update returns for it is what that
\* handler returns, and nothing is discarded before the dispatch.
C35_DispatchedAtEveryOffset ==
    Running =>
        \A msg \in {KeyMsg(k) : k \in Keys} \cup {tickMsg} :
            Update(m, cfg, msg) =
                CASE m.state = urlState -> updateURL(m, cfg, msg)
                  [] m.state = metadataLoadingState -> updateMetadataLoading(m, cfg, msg)
                  [] m.state = browserSelectionState -> updateBrowserSelection(m, cfg, msg)
                  [] m.state = formatState -> updateFormat(m, cfg, msg)
                  [] m.state = formatsLoadingState -> updateFormatsLoading(m, cfg, msg)
                  [] m.state = resolutionState -> updateResolution(m, cfg, msg)
                  [] m.state = confirmationState -> updateConfirmation(m, cfg, msg)
                  [] m.state = downloadingState -> updateDownloading(m, cfg, msg)
                  [] m.state = downloadCompleteState -> updateDownloadComplete(m, cfg, msg)

\* C36: whenever the FormatChoice screen is shown, the choice list is exactly
\* 'Video (with audio)', 'Audio only', also when the screen is reached after
\* a browser was chosen.
C36_FormatChoicesShown ==
    (Running /\ m.state = formatState) =>
        m.choices = <<"Video (with audio)", "Audio only">>

C38_OutcomeFinal ==
    [][m'.state = downloadCompleteState =>
          /\ m'.downloadComplete # (m'.downloadError # "")
          /\ m.state = downloadCompleteState =>
                /\ m'.downloadComplete = m.downloadComplete
                /\ m'.downloadError = m.downloadError
                /\ m'.downloadProgress = m.downloadProgress
                /\ m'.downloadPercent = m.downloadPercent
                /\ m'.downloadSpeed = m.downloadSpeed
                /\ m'.downloadETA = m.downloadETA]_vars
\* the terminal screen shows a failure while a progress event received before
\* the completion is still on its way to the loop
C38_Witness ==
    /\ prog = "run2"
    /\ m.state = downloadCompleteState
    /\ ~m.downloadComplete
    /\ m.downloadError # ""
    /\ \E msg \in inTransit :
          msg.type = "downloadProgress" /\ m.downloadProgress # <<msg.src, msg.seq>>

\* C39: while the download program shows Downloading (no completion has been
\* applied), exactly one receive on the progress channel is outstanding: one
\* waitForProgress is pending or the message it returned is on its way to
\* the loop, never none and never two or more.
C39_OneReceiveOutstanding ==
    (prog = "run2" /\ m.state = downloadingState) =>
        pending["waitForProgress"] + Cardinality(inTransit) = 1

====
